---- MODULE Spec2Model ----
(***************************************************************************)
(* Daily Time Tracking MCP server: the API client (daily-api/client.ts),   *)
(* the response envelopes (types.ts) and the tool handlers                 *)
(* (tools/daily-tools.ts), as one state machine of a single MCP session.   *)
(*                                                                         *)
(* Conventions.  An optional JavaScript value (undefined or a value) is a  *)
(* sequence of length 0 or 1: None is undefined, Some(v) is v.  Messages,  *)
(* dates and endpoints are TLA+ strings, built and inspected character by  *)
(* character with \o, Len and SubSeq.  The backquote cannot be written in  *)
(* a TLA+ string: the three backquotes of a Markdown code fence are        *)
(* written as three apostrophes (the definition Fence).                    *)
(***************************************************************************)
EXTENDS Integers, Sequences, FiniteSets, TLC

VARIABLES
    login,      \* props.login: the GitHub login of the session's caller
    apiKey,     \* env.DAILY_API_KEY: None (unset) or Some(string)
    timeZone,   \* the host's time zone (standard and daylight-saving offsets)
    tools,      \* names of the tools registered on the McpServer
    pc,         \* "start" (before init) | "idle" | "awaiting" (suspended in fetch)
    inv,        \* the invocation being served, or the last one served
    request,    \* None, or Some(the HTTP request in flight)
    calls,      \* outbound HTTP calls issued by the current invocation
    apiResult,  \* None, or Some(the DailyApiResponse makeRequest returned)
    upstream,   \* None, or Some(what fetch produced for the current call)
    outcome,    \* "none" | "pending" | "returned" | "escaped" | "not_exposed"
    envelope,   \* None, or Some(the McpResponse returned to the caller)
    logs,       \* console.error calls made by the current invocation
    probe,      \* argument of the utility function under test (utility specs)
    verdict     \* its result

vars == <<login, apiKey, timeZone, tools, pc, inv, request, calls, apiResult,
          upstream, outcome, envelope, logs, probe, verdict>>

None == <<>>
Some(v) == <<v>>

-----------------------------------------------------------------------------
(* Strings *)

\* s contains sub as a contiguous substring (String.prototype.includes)
Contains(s, sub) ==
    \E i \in 1..(Len(s) - Len(sub) + 1) : SubSeq(s, i, i + Len(sub) - 1) = sub

StartsWith(s, pre) == Len(s) >= Len(pre) /\ SubSeq(s, 1, Len(pre)) = pre

CharAt(s, i) == SubSeq(s, i, i)

IsDigit(c) == c \in {"0", "1", "2", "3", "4", "5", "6", "7", "8", "9"}

DigitVal(c) ==
    CASE c = "0" -> 0 [] c = "1" -> 1 [] c = "2" -> 2 [] c = "3" -> 3
      [] c = "4" -> 4 [] c = "5" -> 5 [] c = "6" -> 6 [] c = "7" -> 7
      [] c = "8" -> 8 [] c = "9" -> 9

\* the decimal number written by the digits s[from..to]
RECURSIVE ParseDigits(_, _, _)
ParseDigits(s, from, to) ==
    IF to < from THEN 0
    ELSE 10 * ParseDigits(s, from, to - 1) + DigitVal(CharAt(s, to))

\* String(n).padStart(width, "0") for n >= 0
RECURSIVE PadStart(_, _)
PadStart(str, width) ==
    IF Len(str) >= width THEN str ELSE PadStart("0" \o str, width)

Fence == "'''"

-----------------------------------------------------------------------------
(* Calendar *)

IsLeapYear(y) == (y % 4 = 0 /\ y % 100 # 0) \/ y % 400 = 0

DaysInMonth(y, m) ==
    CASE m \in {1, 3, 5, 7, 8, 10, 12} -> 31
      [] m \in {4, 6, 9, 11} -> 30
      [] m = 2 -> IF IsLeapYear(y) THEN 29 ELSE 28

\* Date.prototype.toISOString().split('T')[0] of a UTC calendar date
ISODate(d) ==
    PadStart(ToString(d.y), 4) \o "-" \o PadStart(ToString(d.m), 2)
        \o "-" \o PadStart(ToString(d.d), 2)

\* the calendar date of day number n, counted from 1970-01-01 (day 0)
CivilFromDays(n) ==
    LET z == n + 719468
        era == z \div 146097
        doe == z - era * 146097
        yoe == (doe - doe \div 1460 + doe \div 36524 - doe \div 146096) \div 365
        doy == doe - (365 * yoe + yoe \div 4 - yoe \div 100)
        mp == (5 * doy + 2) \div 153
        m == IF mp < 10 THEN mp + 3 ELSE mp - 9
    IN  [y |-> yoe + era * 400 + (IF m <= 2 THEN 1 ELSE 0),
         m |-> m,
         d |-> doy - (153 * mp + 2) \div 5 + 1]

DaysFromCivil(y, m, d) ==
    LET yy == IF m <= 2 THEN y - 1 ELSE y
        era == yy \div 400
        yoe == yy - era * 400
        doy == (153 * (IF m > 2 THEN m - 3 ELSE m + 9) + 2) \div 5 + d - 1
        doe == yoe * 365 + yoe \div 4 - yoe \div 100 + doy
    IN  era * 146097 + doe - 719468

\* Date.prototype.getDay of day number n: 0 is Sunday (1970-01-01 was a Thursday)
Weekday(n) == (n + 4) % 7

\* An instant is a whole number of hours since 1970-01-01T00:00Z.  The host's
\* time zone tz is [std |-> h, dst |-> h']: local time is UTC + std hours, and
\* UTC + dst hours while daylight saving time is in force (dst = std in a zone
\* that does not observe it).  Daylight saving time runs from 01:00Z on the
\* last Sunday of March to 01:00Z on the last Sunday of October.
UtcDay(instant) == instant \div 24

\* March and October have 31 days
LastSunday(y, m) ==
    LET last == DaysFromCivil(y, m, 31) IN last - Weekday(last)

\* the daylight saving periods of the years the clock readings fall in
DaylightPeriods ==
    {[from |-> LastSunday(y, 3) * 24 + 1, to |-> LastSunday(y, 10) * 24 + 1] :
        y \in 2023..2024}

InDaylightTime(instant) ==
    \E period \in DaylightPeriods : period.from <= instant /\ instant < period.to

OffsetAt(tz, instant) == IF InDaylightTime(instant) THEN tz.dst ELSE tz.std

\* LocalTime(t): the host's wall clock at the instant, in hours
LocalTime(instant, tz) == instant + OffsetAt(tz, instant)

\* UTC(t): the instant at which the host's wall clock shows wall; a wall time
\* shown twice or never is read with the offset before the transition
UTC(wall, tz) ==
    LET shown == {u \in {wall - tz.std, wall - tz.dst} : LocalTime(u, tz) = wall}
    IN  IF shown = {} THEN wall - tz.std
        ELSE CHOOSE u \in shown : \A v \in shown : u <= v

LocalDay(instant, tz) == LocalTime(instant, tz) \div 24

\* date.toISOString().split('T')[0]
InstantISO(instant) == ISODate(CivilFromDays(UtcDay(instant)))

\* date.setDate(date.getDate() - days): the same local wall time, days earlier
DaysEarlier(instant, days, tz) == UTC(LocalTime(instant, tz) - 24 * days, tz)

\* new Date(year, month, 1): local midnight of the first day of the local month
FirstOfLocalMonth(instant, tz) ==
    LET local == CivilFromDays(LocalDay(instant, tz))
    IN  UTC(DaysFromCivil(local.y, local.m, 1) * 24, tz)

-----------------------------------------------------------------------------
(* daily-api/client.ts: utilities *)

\* /^\d{4}-\d{2}-\d{2}$/.test(s)
MatchesISOPattern(s) ==
    /\ Len(s) = 10
    /\ \A i \in {1, 2, 3, 4, 6, 7, 9, 10} : IsDigit(CharAt(s, i))
    /\ CharAt(s, 5) = "-"
    /\ CharAt(s, 8) = "-"

\* !isNaN(new Date(s + 'T00:00:00.000Z').getTime()) for s of the pattern.
\* The Workers runtime is V8, whose ISO date parser accepts any year, a month
\* 01..12 and a day 01..31 whatever the month (a day past the month's end
\* rolls over into the next month), and yields NaN otherwise.
DateParses(s) ==
    LET month == ParseDigits(s, 6, 7)
        day == ParseDigits(s, 9, 10)
    IN  month \in 1..12 /\ day \in 1..31

isValidISODate(dateString) ==
    IF ~MatchesISOPattern(dateString) THEN FALSE ELSE DateParses(dateString)

\* new Date().toISOString().split('T')[0], the clock reading now
getTodayISO(now) == InstantISO(now)

\* the date string of the instant `days` local days before now
getDaysAgoISO(now, days, tz) == InstantISO(DaysEarlier(now, days, tz))

-----------------------------------------------------------------------------
(* daily-api/client.ts: DailyTimeTrackingClient *)

DefaultBaseUrl == "https://api.dailytimetracking.com"

\* new DailyTimeTrackingClient({ apiKey })
NewClient(key) == [apiKey |-> key, baseUrl |-> DefaultBaseUrl]

\* URLSearchParams over the entries whose value is not undefined;
\* params is a sequence of <<key, optional string>>
RECURSIVE JoinParams(_)
JoinParams(params) ==
    IF params = <<>> THEN ""
    ELSE LET p == Head(params)
             rest == JoinParams(Tail(params))
         IN  IF p[2] = None THEN rest
             ELSE p[1] \o "=" \o p[2][1] \o (IF rest = "" THEN "" ELSE "&" \o rest)

buildQueryString(params) ==
    LET queryString == JoinParams(params)
    IN  IF queryString = "" THEN "" ELSE "?" \o queryString

\* faulty variant: an omitted flag is sent as true
BoolParam_defaultsTrue(b) == Some(IF b = None \/ b[1] THEN "true" ELSE "false")

\* String(value) of an optional boolean
BoolParam(b) == IF b = None THEN None ELSE Some(IF b[1] THEN "true" ELSE "false")

\* the request fetch is called with: url, method, headers, body
HttpRequest(client, endpoint, method, body) ==
    [url |-> client.baseUrl \o endpoint, endpoint |-> endpoint,
     method |-> method, apiKeyHeader |-> client.apiKey, body |-> body]

getUser(client) == HttpRequest(client, "/user", "GET", None)

getActivities(client, includeArchivedActivities) ==
    HttpRequest(client,
        "/activities" \o buildQueryString(
            <<  <<"includeArchivedActivities", BoolParam(includeArchivedActivities)>> >>),
        "GET", None)

\* faulty variant: the two dates are sent under each other's name
getSummary_swapped(client, start, end, includeArchivedActivities) ==
    HttpRequest(client,
        "/summary" \o buildQueryString(
            << <<"start", Some(end)>>, <<"end", Some(start)>>,
               <<"includeArchivedActivities", BoolParam(includeArchivedActivities)>> >>),
        "GET", None)

getSummary(client, start, end, includeArchivedActivities) ==
    HttpRequest(client,
        "/summary" \o buildQueryString(
            << <<"start", Some(start)>>, <<"end", Some(end)>>,
               <<"includeArchivedActivities", BoolParam(includeArchivedActivities)>> >>),
        "GET", None)

\* faulty variant: the timesheet is asked of the summary endpoint
getTimesheet_summaryEndpoint(client, start, end, includeArchivedActivities) ==
    HttpRequest(client,
        "/summary" \o buildQueryString(
            << <<"start", Some(start)>>, <<"end", Some(end)>>,
               <<"includeArchivedActivities", BoolParam(includeArchivedActivities)>> >>),
        "GET", None)

getTimesheet(client, start, end, includeArchivedActivities) ==
    HttpRequest(client,
        "/timesheet" \o buildQueryString(
            << <<"start", Some(start)>>, <<"end", Some(end)>>,
               <<"includeArchivedActivities", BoolParam(includeArchivedActivities)>> >>),
        "GET", None)

createActivities(client, activities, archiveExistingActivities) ==
    HttpRequest(client,
        "/activities" \o buildQueryString(
            << <<"archiveExistingActivities", BoolParam(archiveExistingActivities)>> >>),
        "POST", Some(activities))

\* What the awaited fetch produced: a rejection (transport failure), or a
\* response with a status and a body; the body is None when its text is not
\* JSON (response.json() throws) and Some(value) when it parses.
Rejected(message) == [kind |-> "rejected", message |-> message]
Response(status, body) == [kind |-> "response", status |-> status, body |-> body]

NetworkError(message) ==
    [success |-> FALSE, data |-> None,
     error |-> Some("Network error: " \o message), statusCode |-> None]

\* faulty variant: the failure also carries the response's body as data
HttpFailure_withBody(message, statusCode) ==
    [success |-> FALSE, data |-> Some([t |-> "object"]),
     error |-> Some(message), statusCode |-> Some(statusCode)]

HttpFailure(message, statusCode) ==
    [success |-> FALSE, data |-> None,
     error |-> Some(message), statusCode |-> Some(statusCode)]

JsonSyntaxError == "Unexpected end of JSON input"

\* the DailyApiResponse makeRequest returns once fetch has settled
makeRequest(up) ==
    IF up.kind = "rejected" THEN NetworkError(up.message)
    ELSE LET statusCode == up.status IN
         CASE statusCode = 200 ->
                IF up.body = None
                THEN NetworkError(JsonSyntaxError)
                ELSE [success |-> TRUE, data |-> up.body,
                      error |-> None, statusCode |-> Some(statusCode)]
           [] statusCode = 204 ->
                [success |-> TRUE, data |-> None,
                 error |-> None, statusCode |-> Some(statusCode)]
           [] statusCode = 400 ->
                HttpFailure("Bad Request: The request was invalid or missing required data",
                            statusCode)
           [] statusCode = 401 ->
                HttpFailure("Unauthorized: Invalid or missing API key", statusCode)
           [] statusCode = 500 ->
                HttpFailure("Internal Server Error: The server encountered an unexpected error",
                            statusCode)
           [] OTHER ->
                HttpFailure("Unexpected response status: " \o ToString(statusCode),
                            statusCode)

-----------------------------------------------------------------------------
(* types.ts: response envelopes *)

\* JSON.stringify(details, null, 2) of the details object { statusCode };
\* a property whose value is undefined is left out
StringifyDetails(details) ==
    IF details.statusCode = None THEN "{}"
    ELSE "{\n  \"statusCode\": " \o ToString(details.statusCode[1]) \o "\n}"

\* details: None or Some([statusCode |-> optional number])
createErrorResponse(message, details) ==
    [isError |-> TRUE,
     text |-> "**Error**\n\n" \o message \o
              (IF details = None THEN ""
               ELSE "\n\n**Details:**\n" \o Fence \o "json\n"
                        \o StringifyDetails(details[1]) \o "\n" \o Fence),
     data |-> None]

\* data is kept as the structure JSON.stringify is applied to
createSuccessResponse(message, data) ==
    [isError |-> FALSE, text |-> "**Success**\n\n" \o message, data |-> Some(data)]

-----------------------------------------------------------------------------
(* tools/daily-tools.ts: what a handler body does next *)

Return(env) == [k |-> "return", env |-> env]
Throw(message) == [k |-> "throw", message |-> message]
Fetch(req) == [k |-> "fetch", request |-> req]

\* JSON values of a response body: null, an object with none of the expected
\* properties, a user object, an array
JNull == [t |-> "null"]
JObject == [t |-> "object"]
JUser(dataRetention, lastSynced) ==
    [t |-> "user", dataRetention |-> dataRetention, lastSynced |-> lastSynced]
JArray(items) == [t |-> "array", items |-> items]

\* response.data! is undefined or null: reading a property of it throws
IsNullish(data) == data = None \/ data[1].t = "null"

PropertyOfNullish(data, prop) ==
    "Cannot read properties of " \o (IF data = None THEN "undefined" ELSE "null")
        \o " (reading '" \o prop \o "')"

\* faulty variant: the details carry no status code
StatusDetails_omitted(response) == Some([statusCode |-> None])

\* the { statusCode: response.statusCode } passed as details
StatusDetails(response) == Some([statusCode |-> response.statusCode])

ALLOWED_USERNAMES == {"coleam00"}

\* faulty variant: only an undefined key is refused, an empty one is used
getDailyClient_undefinedOnly(key) ==
    IF key = None
    THEN Throw("DAILY_API_KEY environment variable is required")
    ELSE [k |-> "client", client |-> NewClient(key[1])]

getDailyClient(key) ==
    IF key = None \/ key[1] = ""
    THEN Throw("DAILY_API_KEY environment variable is required")
    ELSE [k |-> "client", client |-> NewClient(key[1])]

\* faulty variant: no catch block, the error leaves the handler
tryCatch_rethrows(res, prefix) ==
    IF res.k = "throw"
    THEN [outcome |-> "escaped", envelope |-> None, logs |-> 0]
    ELSE [outcome |-> "returned", envelope |-> Some(res.env), logs |-> 0]

\* try { body } catch (error) { console.error(...); return createErrorResponse(prefix + message) }
\* applied to what the body did: the envelope returned, and the console.error calls
tryCatch(res, prefix) ==
    IF res.k = "throw"
    THEN [outcome |-> "returned",
          envelope |-> Some(createErrorResponse(prefix \o res.message, None)),
          logs |-> 1]
    ELSE [outcome |-> "returned", envelope |-> Some(res.env), logs |-> 0]

-----------------------------------------------------------------------------
(* Tool 1: getDailyUser *)

getDailyUserStart(key) ==
    LET c == getDailyClient(key)
    IN  IF c.k = "throw" THEN c ELSE Fetch(getUser(c.client))

getDailyUserResume(response) ==
    IF ~response.success
    THEN Return(createErrorResponse(
            "Failed to retrieve user information: " \o response.error[1],
            StatusDetails(response)))
    ELSE IF IsNullish(response.data)
    THEN Throw(PropertyOfNullish(response.data, "dataRetention"))
    ELSE LET user == response.data[1]
             synced == user.t = "user" /\ user.lastSynced # None /\ user.lastSynced[1] # ""
         IN  Return(createSuccessResponse(
                "User information retrieved successfully",
                [dataRetention |->
                    (IF user.t = "user" THEN ToString(user.dataRetention) ELSE "undefined")
                        \o " days",
                 lastSynced |-> IF synced THEN user.lastSynced[1] ELSE "Never synchronized",
                 syncStatus |-> IF synced THEN "Active" ELSE "No data synced yet"]))

-----------------------------------------------------------------------------
(* daily-api/client.ts: formatDuration; helpers of the reporting code *)

\* faulty variant: the minutes are those of the whole duration, hours included
formatDuration_totalMinutes(seconds) ==
    LET hours == seconds \div 3600
        minutes == seconds \div 60
        remainingSeconds == seconds % 60
    IN  IF hours > 0
        THEN ToString(hours) \o "h " \o ToString(minutes) \o "m "
                \o ToString(remainingSeconds) \o "s"
        ELSE IF minutes > 0
        THEN ToString(minutes) \o "m " \o ToString(remainingSeconds) \o "s"
        ELSE ToString(remainingSeconds) \o "s"

formatDuration(seconds) ==
    LET hours == seconds \div 3600
        minutes == (seconds % 3600) \div 60
        remainingSeconds == seconds % 60
    IN  IF hours > 0
        THEN ToString(hours) \o "h " \o ToString(minutes) \o "m "
                \o ToString(remainingSeconds) \o "s"
        ELSE IF minutes > 0
        THEN ToString(minutes) \o "m " \o ToString(remainingSeconds) \o "s"
        ELSE ToString(remainingSeconds) \o "s"

\* item.group || 'Ungrouped': null and the empty string are falsy
GroupLabel(group) == IF group = None \/ group[1] = "" THEN "Ungrouped" ELSE group[1]

RECURSIVE SumDurations(_)
SumDurations(items) ==
    IF items = <<>> THEN 0 ELSE Head(items).duration + SumDurations(Tail(items))

\* faulty variant: an item goes before the items of equal duration already
\* placed (the sort is not stable)
RECURSIVE InsertByDuration_beforeEquals(_, _)
InsertByDuration_beforeEquals(sorted, item) ==
    IF sorted = <<>> THEN <<item>>
    ELSE IF Head(sorted).duration > item.duration
         THEN <<Head(sorted)>> \o InsertByDuration_beforeEquals(Tail(sorted), item)
         ELSE <<item>> \o sorted

\* Array.prototype.sort((a, b) => b.duration - a.duration): stable, so an item
\* goes after the items of greater or equal duration already placed
RECURSIVE InsertByDuration(_, _)
InsertByDuration(sorted, item) ==
    IF sorted = <<>> THEN <<item>>
    ELSE IF Head(sorted).duration >= item.duration
         THEN <<Head(sorted)>> \o InsertByDuration(Tail(sorted), item)
         ELSE <<item>> \o sorted

RECURSIVE SortByDurationDesc(_)
SortByDurationDesc(items) ==
    IF items = <<>> THEN <<>>
    ELSE InsertByDuration(SortByDurationDesc(SubSeq(items, 1, Len(items) - 1)),
                          items[Len(items)])

\* faulty variant: the total is not tested, and 0 / 0 is formatted
Percentage_unguarded(duration, totalDuration) ==
    IF totalDuration > 0
    THEN LET tenths == (2000 * duration + totalDuration) \div (2 * totalDuration)
         IN  ToString(tenths \div 10) \o "." \o ToString(tenths % 10) \o "%"
    ELSE "NaN%"

\* faulty variant: the percentage is cut after its first decimal, not rounded
Percentage_truncated(duration, totalDuration) ==
    IF totalDuration > 0
    THEN LET tenths == (1000 * duration) \div totalDuration
         IN  ToString(tenths \div 10) \o "." \o ToString(tenths % 10) \o "%"
    ELSE "0%"

\* ((duration / totalDuration) * 100).toFixed(1) + '%', in tenths of a percent
\* rounded to nearest (a value exactly halfway between two tenths is rounded
\* up here; toFixed rounds the binary double); '0%' when the total is 0
Percentage(duration, totalDuration) ==
    IF totalDuration > 0
    THEN LET tenths == (2000 * duration + totalDuration) \div (2 * totalDuration)
         IN  ToString(tenths \div 10) \o "." \o ToString(tenths % 10) \o "%"
    ELSE "0%"

\* faulty variant: the average is cut to whole seconds, not rounded
RoundDiv_floor(a, b) == a \div b

\* Math.round(a / b) for a >= 0, b > 0
RoundDiv(a, b) == (2 * a + b) \div (2 * b)

-----------------------------------------------------------------------------
(* Tool 2: getDailyActivities *)

getDailyActivitiesStart(key, includeArchivedActivities) ==
    LET c == getDailyClient(key)
    IN  IF c.k = "throw" THEN c
        ELSE Fetch(getActivities(c.client, includeArchivedActivities))

\* property names every object literal inherits from Object.prototype: acc[name]
\* is truthy before any activity was stored under it, and has no push method
ObjectPrototypeKeys ==
    {"constructor", "toString", "valueOf", "hasOwnProperty", "isPrototypeOf",
     "propertyIsEnumerable", "toLocaleString", "__proto__"}

\* activities.reduce(...): the buckets after the activities so far; None once
\* acc[groupName].push has thrown
RECURSIVE GroupActivities(_)
GroupActivities(activities) ==
    IF activities = <<>> THEN Some([g \in {} |-> <<>>])
    ELSE LET before == GroupActivities(SubSeq(activities, 1, Len(activities) - 1))
             activity == activities[Len(activities)]
             groupName == GroupLabel(activity.group)
         IN  IF before = None THEN None
             ELSE LET acc == before[1] IN
                  IF groupName \in DOMAIN acc
                  THEN Some([acc EXCEPT ![groupName] = Append(@, activity)])
                  ELSE IF groupName \in ObjectPrototypeKeys THEN None
                  ELSE Some([g \in DOMAIN acc \cup {groupName} |->
                                IF g = groupName THEN <<activity>> ELSE acc[g]])

getDailyActivitiesResume(response) ==
    IF ~response.success
    THEN Return(createErrorResponse(
            "Failed to retrieve activities: " \o response.error[1],
            StatusDetails(response)))
    ELSE IF IsNullish(response.data)
    THEN Throw(PropertyOfNullish(response.data, "length"))
    ELSE IF response.data[1].t # "array"
    THEN Throw("activities.filter is not a function")
    ELSE LET activities == response.data[1].items
             totalActivities == Len(activities)
             archivedCount ==
                Cardinality({i \in 1..Len(activities) : activities[i].archived})
             activeCount == totalActivities - archivedCount
             groupedActivities == GroupActivities(activities)
         IN  IF groupedActivities = None
             THEN Throw("acc[groupName].push is not a function")
             ELSE Return(createSuccessResponse(
                    "Retrieved " \o ToString(totalActivities) \o " activities ("
                        \o ToString(activeCount) \o " active, "
                        \o ToString(archivedCount) \o " archived)",
                    [summary |-> [total |-> totalActivities,
                                  active |-> activeCount,
                                  archived |-> archivedCount,
                                  groups |-> Cardinality(DOMAIN groupedActivities[1])],
                     activitiesByGroup |-> groupedActivities[1]]))

-----------------------------------------------------------------------------
(* Tool 3: getDailySummary *)

InvalidDate(field, today) ==
    createErrorResponse(
        "Invalid " \o field \o " date format. Use YYYY-MM-DD format. Example: "
            \o getTodayISO(today), None)

getDailySummaryStart(key, today, start, end, includeArchivedActivities) ==
    IF ~isValidISODate(start) THEN Return(InvalidDate("start", today))
    ELSE IF ~isValidISODate(end) THEN Return(InvalidDate("end", today))
    ELSE LET c == getDailyClient(key)
         IN  IF c.k = "throw" THEN c
             ELSE Fetch(getSummary(c.client, start, end, includeArchivedActivities))

FormatSummaryItem(item, totalDuration) ==
    [activity |-> item.activity,
     group |-> GroupLabel(item.group),
     duration |-> formatDuration(item.duration),
     durationSeconds |-> item.duration,
     percentage |-> Percentage(item.duration, totalDuration)]

getDailySummaryResume(response, start, end) ==
    IF ~response.success
    THEN Return(createErrorResponse(
            "Failed to retrieve summary: " \o response.error[1],
            StatusDetails(response)))
    ELSE IF IsNullish(response.data)
    THEN Throw(PropertyOfNullish(response.data, "reduce"))
    ELSE IF response.data[1].t # "array"
    THEN Throw("summary.reduce is not a function")
    ELSE LET summary == response.data[1].items
             totalDuration == SumDurations(summary)
             sortedSummary == SortByDurationDesc(summary)
             formattedSummary ==
                [i \in 1..Len(sortedSummary) |->
                    FormatSummaryItem(sortedSummary[i], totalDuration)]
         IN  Return(createSuccessResponse(
                "Time summary from " \o start \o " to " \o end \o " ("
                    \o ToString(Len(formattedSummary)) \o " activities)",
                [period |-> [start |-> start, end |-> end],
                 totalTime |-> formatDuration(totalDuration),
                 totalSeconds |-> totalDuration,
                 activities |-> formattedSummary]))

-----------------------------------------------------------------------------
(* Tool 4: getDailyTimesheet *)

\* faulty variant: the end date is not validated
getDailyTimesheetStart_startOnly(key, today, start, end, includeArchivedActivities) ==
    IF ~isValidISODate(start) THEN Return(InvalidDate("start", today))
    ELSE LET c == getDailyClient(key)
         IN  IF c.k = "throw" THEN c
             ELSE Fetch(getTimesheet(c.client, start, end, includeArchivedActivities))

getDailyTimesheetStart(key, today, start, end, includeArchivedActivities) ==
    IF ~isValidISODate(start) THEN Return(InvalidDate("start", today))
    ELSE IF ~isValidISODate(end) THEN Return(InvalidDate("end", today))
    ELSE LET c == getDailyClient(key)
         IN  IF c.k = "throw" THEN c
             ELSE Fetch(getTimesheet(c.client, start, end, includeArchivedActivities))

FormatTimesheetDay(day) ==
    LET dayTotal == SumDurations(day.activities)
    IN  [date |-> day.date,
         dayTotal |-> formatDuration(dayTotal),
         dayTotalSeconds |-> dayTotal,
         activitiesCount |-> Len(day.activities),
         activities |->
            [i \in 1..Len(day.activities) |->
                [activity |-> day.activities[i].activity,
                 group |-> GroupLabel(day.activities[i].group),
                 duration |-> formatDuration(day.activities[i].duration),
                 durationSeconds |-> day.activities[i].duration]]]

RECURSIVE SumDayTotals(_)
SumDayTotals(days) ==
    IF days = <<>> THEN 0
    ELSE SumDurations(Head(days).activities) + SumDayTotals(Tail(days))

getDailyTimesheetResume(response, start, end) ==
    IF ~response.success
    THEN Return(createErrorResponse(
            "Failed to retrieve timesheet: " \o response.error[1],
            StatusDetails(response)))
    ELSE IF IsNullish(response.data)
    THEN Throw(PropertyOfNullish(response.data, "length"))
    ELSE IF response.data[1].t # "array"
    THEN Throw("timesheet.filter is not a function")
    ELSE LET timesheet == response.data[1].items
             totalDays == Len(timesheet)
             daysWithActivity ==
                Cardinality({i \in 1..Len(timesheet) : Len(timesheet[i].activities) > 0})
             totalTimeAllDays == SumDayTotals(timesheet)
             formattedTimesheet ==
                [i \in 1..Len(timesheet) |-> FormatTimesheetDay(timesheet[i])]
         IN  Return(createSuccessResponse(
                "Timesheet from " \o start \o " to " \o end \o " ("
                    \o ToString(totalDays) \o " days, "
                    \o ToString(daysWithActivity) \o " with activity)",
                [period |-> [start |-> start, end |-> end],
                 summary |->
                    [totalDays |-> totalDays,
                     daysWithActivity |-> daysWithActivity,
                     daysWithoutActivity |-> totalDays - daysWithActivity,
                     totalTime |-> formatDuration(totalTimeAllDays),
                     totalSeconds |-> totalTimeAllDays,
                     averagePerDay |->
                        IF totalDays > 0
                        THEN formatDuration(RoundDiv(totalTimeAllDays, totalDays))
                        ELSE "0s"],
                 timesheet |-> formattedTimesheet]))

-----------------------------------------------------------------------------
(* Tool 5: createDailyActivities *)

createDailyActivitiesStart(key, activities, archiveExistingActivities) ==
    LET c == getDailyClient(key)
    IN  IF c.k = "throw" THEN c
        ELSE Fetch(createActivities(c.client, activities, archiveExistingActivities))

\* faulty variant: a success without data is read as an empty result
createDailyActivitiesResume_toleratesNoData(response, who, activities, archiveExistingActivities) ==
    IF ~response.success
    THEN Return(createErrorResponse(
            "Failed to create activities: " \o response.error[1],
            StatusDetails(response)))
    ELSE LET result == IF IsNullish(response.data) THEN JArray(<<>>) ELSE response.data[1]
             archive == archiveExistingActivities = Some(TRUE)
         IN  Return(createSuccessResponse(
                "Successfully processed " \o ToString(Len(activities)) \o " activities"
                    \o (IF archive THEN " (existing activities were archived)" ELSE ""),
                [requestedActivities |-> Len(activities),
                 processedActivities |->
                    IF result.t = "array" THEN Some(Len(result.items)) ELSE None,
                 archivedExisting |-> archive,
                 activities |-> result,
                 executedBy |-> who]))

\* props.name is not modelled: executedBy keeps the login only
createDailyActivitiesResume(response, who, activities, archiveExistingActivities) ==
    IF ~response.success
    THEN Return(createErrorResponse(
            "Failed to create activities: " \o response.error[1],
            StatusDetails(response)))
    ELSE IF IsNullish(response.data)
    THEN Throw(PropertyOfNullish(response.data, "length"))
    ELSE LET result == response.data[1]
             archive == archiveExistingActivities = Some(TRUE)
         IN  Return(createSuccessResponse(
                "Successfully processed " \o ToString(Len(activities)) \o " activities"
                    \o (IF archive THEN " (existing activities were archived)" ELSE ""),
                [requestedActivities |-> Len(activities),
                 processedActivities |->
                    IF result.t = "array" THEN Some(Len(result.items)) ELSE None,
                 archivedExisting |-> archive,
                 activities |-> result,
                 executedBy |-> who]))

-----------------------------------------------------------------------------
(* Helper tool: getDailyQuickSummary *)

Periods ==
    {"today", "yesterday", "this_week", "last_week", "this_month",
     "last_7_days", "last_30_days"}

\* faulty variant: the switch has no default case and an unknown period is
\* served as today
PeriodRange_defaultsToToday(period, now, tz) ==
    Some([start |-> getTodayISO(now), end |-> getTodayISO(now)])

\* the switch over period: the range { start, end }; None in the default case
PeriodRange(period, now, tz) ==
    LET today == now
        getDay == Weekday(LocalDay(today, tz))
    IN  CASE period = "today" ->
                Some([start |-> getTodayISO(now), end |-> getTodayISO(now)])
          [] period = "yesterday" ->
                Some([start |-> getDaysAgoISO(now, 1, tz), end |-> getDaysAgoISO(now, 1, tz)])
          [] period = "this_week" ->
                LET startOfWeek == DaysEarlier(today, getDay, tz)
                IN  Some([start |-> InstantISO(startOfWeek), end |-> getTodayISO(now)])
          [] period = "last_week" ->
                LET lastWeekEnd == DaysEarlier(today, getDay + 1, tz)
                    lastWeekStart == DaysEarlier(lastWeekEnd, 6, tz)
                IN  Some([start |-> InstantISO(lastWeekStart),
                          end |-> InstantISO(lastWeekEnd)])
          [] period = "this_month" ->
                Some([start |-> InstantISO(FirstOfLocalMonth(today, tz)),
                      end |-> getTodayISO(now)])
          [] period = "last_7_days" ->
                Some([start |-> getDaysAgoISO(now, 7, tz), end |-> getTodayISO(now)])
          [] period = "last_30_days" ->
                Some([start |-> getDaysAgoISO(now, 30, tz), end |-> getTodayISO(now)])
          [] OTHER -> None

getDailyQuickSummaryStart(key, now, tz, period, includeArchivedActivities) ==
    LET range == PeriodRange(period, now, tz)
    IN  IF range = None
        THEN Return(createErrorResponse("Invalid period: " \o period, None))
        ELSE LET c == getDailyClient(key)
             IN  IF c.k = "throw" THEN c
                 ELSE Fetch(getSummary(c.client, range[1].start, range[1].end,
                                       includeArchivedActivities))

\* period.replace('_', ' '): the first underscore only
RECURSIVE ReplaceFirstUnderscore(_)
ReplaceFirstUnderscore(str) ==
    IF str = "" THEN ""
    ELSE IF CharAt(str, 1) = "_" THEN " " \o SubSeq(str, 2, Len(str))
    ELSE CharAt(str, 1) \o ReplaceFirstUnderscore(SubSeq(str, 2, Len(str)))

getDailyQuickSummaryResume(response, now, tz, period) ==
    IF ~response.success
    THEN Return(createErrorResponse(
            "Failed to retrieve quick summary: " \o response.error[1],
            StatusDetails(response)))
    ELSE IF IsNullish(response.data)
    THEN Throw(PropertyOfNullish(response.data, "reduce"))
    ELSE IF response.data[1].t # "array"
    THEN Throw("summary.reduce is not a function")
    ELSE LET range == PeriodRange(period, now, tz)[1]
             summary == response.data[1].items
             totalDuration == SumDurations(summary)
             sortedSummary == SortByDurationDesc(summary)
             formattedSummary ==
                [i \in 1..Len(sortedSummary) |->
                    [activity |-> sortedSummary[i].activity,
                     group |-> GroupLabel(sortedSummary[i].group),
                     duration |-> formatDuration(sortedSummary[i].duration),
                     percentage |-> Percentage(sortedSummary[i].duration, totalDuration)]]
             top == IF Len(formattedSummary) < 5 THEN Len(formattedSummary) ELSE 5
         IN  Return(createSuccessResponse(
                "Quick summary for " \o ReplaceFirstUnderscore(period) \o " ("
                    \o range.start \o " to " \o range.end \o ")",
                [period |-> ReplaceFirstUnderscore(period),
                 dateRange |-> [start |-> range.start, end |-> range.end],
                 totalTime |-> formatDuration(totalDuration),
                 activitiesCount |-> Len(formattedSummary),
                 topActivities |-> SubSeq(formattedSummary, 1, top),
                 allActivities |-> formattedSummary]))

-----------------------------------------------------------------------------
(* Registration: index.ts init -> registerAllTools -> registerDailyTools *)

PublicTools ==
    {"getDailyUser", "getDailyActivities", "getDailySummary", "getDailyTimesheet",
     "getDailyQuickSummary"}

ToolNames == PublicTools \cup {"createDailyActivities"}

Upper == "ABCDEFGHIJKLMNOPQRSTUVWXYZ"
Lower == "abcdefghijklmnopqrstuvwxyz"

RECURSIVE ToLowerCase(_)
ToLowerCase(str) ==
    IF str = "" THEN ""
    ELSE LET c == CharAt(str, 1)
             at == {i \in 1..26 : CharAt(Upper, i) = c}
         IN  (IF at = {} THEN c ELSE CharAt(Lower, CHOOSE i \in at : TRUE))
                \o ToLowerCase(SubSeq(str, 2, Len(str)))

\* faulty variant: the membership test ignores letter case
registerDailyTools_anyCase(who) ==
    PublicTools \cup
        (IF ToLowerCase(who) \in ALLOWED_USERNAMES
         THEN {"createDailyActivities"} ELSE {})

\* faulty variant: the create tool is registered for every caller
registerDailyTools_everyone(who) == PublicTools \cup {"createDailyActivities"}

\* the names server.tool is called with for a caller of this login
registerDailyTools(who) ==
    PublicTools \cup
        (IF who \in ALLOWED_USERNAMES THEN {"createDailyActivities"} ELSE {})

\* tools/daily-tools-sentry.ts: its own allow-list, and the names
\* registerToolWithSentry is called with for a caller of this login
ALLOWED_USERNAMES_Sentry == {"jplattus"}

registerDailyToolsWithSentry(who) ==
    PublicTools \cup
        (IF who \in ALLOWED_USERNAMES_Sentry THEN {"createDailyActivities"} ELSE {})

\* the prefix each handler's catch block puts before the error's message
CatchPrefix(tool) ==
    CASE tool = "getDailyUser" -> "Error retrieving user information: "
      [] tool = "getDailyActivities" -> "Error retrieving activities: "
      [] tool = "getDailySummary" -> "Error retrieving summary: "
      [] tool = "getDailyTimesheet" -> "Error retrieving timesheet: "
      [] tool = "createDailyActivities" -> "Error creating activities: "
      [] tool = "getDailyQuickSummary" -> "Error retrieving quick summary: "

\* the handler's code after the awaited client call, for the invocation i
Resume(i, who, zone, response) ==
    CASE i.tool = "getDailyUser" -> getDailyUserResume(response)
      [] i.tool = "getDailyActivities" -> getDailyActivitiesResume(response)
      [] i.tool = "getDailySummary" -> getDailySummaryResume(response, i.start, i.end)
      [] i.tool = "getDailyTimesheet" -> getDailyTimesheetResume(response, i.start, i.end)
      [] i.tool = "createDailyActivities" ->
            createDailyActivitiesResume(response, who, i.activities,
                                        i.archiveExistingActivities)
      [] i.tool = "getDailyQuickSummary" ->
            getDailyQuickSummaryResume(response, i.now[1], zone, i.period)

-----------------------------------------------------------------------------
(* Inputs *)

MaxItems == 2

Logins == {"coleam00", "Coleam00", "jplattus"}
ApiKeys == {None, Some(""), Some("k3y")}
\* host zones: UTC-5 and UTC all year; UTC+1 with daylight saving time (UTC+2)
Zone(std, dst) == [std |-> std, dst |-> dst]
TimeZones == {Zone(-5, -5), Zone(0, 0), Zone(1, 2)}

\* clock readings: 2024-03-01T01:00Z (a Friday), 2023-12-31T23:00Z (a Sunday),
\* 2024-01-03T12:00Z (a Wednesday), 2023-10-30T00:00Z (the Monday after
\* daylight saving time ended)
Instants ==
    {DaysFromCivil(2024, 3, 1) * 24 + 1,
     DaysFromCivil(2023, 12, 31) * 24 + 23,
     DaysFromCivil(2024, 1, 3) * 24 + 12,
     DaysFromCivil(2023, 10, 30) * 24}

DateArgs == {"2024-01-01", "2024-02-30", "2024-13-01", "23-1-1"}
PeriodArgs == Periods \cup {"last_month"}
OptionalBooleans == {None, Some(TRUE), Some(FALSE)}

SeqsUpTo(S, n) == UNION {[1..k -> S] : k \in 0..n}

NewActivities ==
    {<<[name |-> "Planning", group |-> None]>>,
     <<[name |-> "Planning", group |-> Some("Work")], [name |-> "Review", group |-> None]>>}

Statuses == {200, 204, 400, 401, 500, 404, 503}

UserObjects == {JUser(30, Some("2024-01-05T10:00:00Z")), JUser(0, None)}

ActivityObjects ==
    {[name |-> "Coding", group |-> None, archived |-> FALSE],
     [name |-> "Standup", group |-> Some("Work"), archived |-> TRUE],
     [name |-> "Build", group |-> Some("constructor"), archived |-> FALSE]}

SummaryObjects ==
    {[activity |-> "Coding", group |-> None, duration |-> 3600],
     [activity |-> "Meetings", group |-> Some("Work"), duration |-> 1800],
     [activity |-> "Email", group |-> Some("Work"), duration |-> 1800]}

TimesheetDays ==
    {[date |-> "2024-01-01", activities |-> <<>>],
     [date |-> "2024-01-02", activities |->
        <<[activity |-> "Coding", group |-> None, duration |-> 3600]>>],
     [date |-> "2024-01-03", activities |->
        <<[activity |-> "Meetings", group |-> Some("Work"), duration |-> 1800],
          [activity |-> "Coding", group |-> None, duration |-> 45]>>]}

\* the payloads upstream answers a tool's call with
Payloads(tool) ==
    CASE tool = "getDailyUser" -> UserObjects
      [] tool \in {"getDailyActivities", "createDailyActivities"} ->
            {JArray(q) : q \in SeqsUpTo(ActivityObjects, MaxItems)}
      [] tool \in {"getDailySummary", "getDailyQuickSummary"} ->
            {JArray(q) : q \in SeqsUpTo(SummaryObjects, MaxItems)}
      [] tool = "getDailyTimesheet" ->
            {JArray(q) : q \in SeqsUpTo(TimesheetDays, MaxItems)}

\* what the awaited fetch can produce: a transport failure, a response of any
\* status whose body is not JSON, or a 200 response whose body is JSON
UpstreamOutcomes(tool) ==
    {Rejected("fetch failed")}
        \cup {Response(status, None) : status \in Statuses}
        \cup {Response(200, Some(j)) : j \in {JNull, JObject} \cup Payloads(tool)}

-----------------------------------------------------------------------------
(* The session *)

NoInvocation == [tool |-> "none"]

Init ==
    /\ login \in Logins
    /\ apiKey \in ApiKeys
    /\ timeZone \in TimeZones
    /\ tools = {}
    /\ pc = "start"
    /\ inv = NoInvocation
    /\ request = None
    /\ calls = 0
    /\ apiResult = None
    /\ upstream = None
    /\ outcome = "none"
    /\ envelope = None
    /\ logs = 0
    /\ probe = ""
    /\ verdict = None

\* MyMCP.init: the tools are registered once, for the session's caller
Register ==
    /\ pc = "start"
    /\ tools' = registerDailyTools(login)
    /\ pc' = "idle"
    /\ UNCHANGED <<login, apiKey, timeZone, inv, request, calls, apiResult,
                   upstream, outcome, envelope, logs, probe, verdict>>

\* A registered tool is invoked with the arguments i; res is what its handler
\* does up to its await: it returns, throws, or calls fetch and suspends.
Begin(i, res) ==
    /\ pc = "idle"
    /\ i.tool \in tools
    /\ inv' = i
    /\ apiResult' = None
    /\ upstream' = None
    /\ IF res.k = "fetch"
       THEN /\ pc' = "awaiting"
            /\ request' = Some(res.request)
            /\ calls' = 1
            /\ outcome' = "pending"
            /\ envelope' = None
            /\ logs' = 0
       ELSE LET end == tryCatch(res, CatchPrefix(i.tool))
            IN  /\ pc' = "done"
                /\ request' = None
                /\ calls' = 0
                /\ outcome' = end.outcome
                /\ envelope' = end.envelope
                /\ logs' = end.logs
    /\ UNCHANGED <<login, apiKey, timeZone, tools, probe, verdict>>

GetDailyUser ==
    Begin([tool |-> "getDailyUser"], getDailyUserStart(apiKey))

GetDailyActivities ==
    \E include \in OptionalBooleans :
        Begin([tool |-> "getDailyActivities", includeArchivedActivities |-> include],
              getDailyActivitiesStart(apiKey, include))

\* the clock is read (getTodayISO) only on the invalid-date paths
GetDailySummary ==
    \E start \in DateArgs, end \in DateArgs, include \in OptionalBooleans :
        \E now \in IF isValidISODate(start) /\ isValidISODate(end)
                   THEN {None} ELSE {Some(t) : t \in Instants} :
            Begin([tool |-> "getDailySummary", start |-> start, end |-> end,
                   includeArchivedActivities |-> include, now |-> now],
                  getDailySummaryStart(apiKey, IF now = None THEN 0 ELSE now[1],
                                       start, end, include))

GetDailyTimesheet ==
    \E start \in DateArgs, end \in DateArgs, include \in OptionalBooleans :
        \E now \in IF isValidISODate(start) /\ isValidISODate(end)
                   THEN {None} ELSE {Some(t) : t \in Instants} :
            Begin([tool |-> "getDailyTimesheet", start |-> start, end |-> end,
                   includeArchivedActivities |-> include, now |-> now],
                  getDailyTimesheetStart(apiKey, IF now = None THEN 0 ELSE now[1],
                                         start, end, include))

CreateDailyActivities ==
    \E activities \in NewActivities, archive \in OptionalBooleans :
        Begin([tool |-> "createDailyActivities", activities |-> activities,
               archiveExistingActivities |-> archive],
              createDailyActivitiesStart(apiKey, activities, archive))

GetDailyQuickSummary ==
    \E period \in PeriodArgs, include \in OptionalBooleans, now \in Instants :
        Begin([tool |-> "getDailyQuickSummary", period |-> period,
               includeArchivedActivities |-> include, now |-> Some(now)],
              getDailyQuickSummaryStart(apiKey, now, timeZone, period, include))

\* A caller asks for a tool that was not registered for it: no handler of this
\* server runs and no envelope is built.
CallUnregisteredTool ==
    /\ pc = "idle"
    /\ \E t \in ToolNames \ tools : inv' = [tool |-> t]
    /\ pc' = "done"
    /\ outcome' = "not_exposed"
    /\ envelope' = None
    /\ request' = None
    /\ calls' = 0
    /\ logs' = 0
    /\ apiResult' = None
    /\ upstream' = None
    /\ UNCHANGED <<login, apiKey, timeZone, tools, probe, verdict>>

\* faulty variant: a failed call is issued once more instead of being reported
Settle_retries(up) ==
    /\ pc = "awaiting"
    /\ IF makeRequest(up).success
       THEN LET response == makeRequest(up)
                end == tryCatch(Resume(inv, login, timeZone, response),
                                CatchPrefix(inv.tool))
            IN  /\ upstream' = Some(up)
                /\ apiResult' = Some(response)
                /\ outcome' = end.outcome
                /\ envelope' = end.envelope
                /\ logs' = end.logs
                /\ request' = None
                /\ pc' = "done"
                /\ calls' = calls
       ELSE /\ calls' = calls + 1
            /\ calls < 2
            /\ UNCHANGED <<upstream, apiResult, outcome, envelope, logs, request, pc>>
    /\ UNCHANGED <<login, apiKey, timeZone, tools, inv, probe, verdict>>

\* The awaited fetch settles with up: makeRequest builds its result and the
\* handler runs to its end.
Settle(up) ==
    /\ pc = "awaiting"
    /\ LET response == makeRequest(up)
           end == tryCatch(Resume(inv, login, timeZone, response), CatchPrefix(inv.tool))
       IN  /\ upstream' = Some(up)
           /\ apiResult' = Some(response)
           /\ outcome' = end.outcome
           /\ envelope' = end.envelope
           /\ logs' = end.logs
    /\ request' = None
    /\ pc' = "done"
    /\ UNCHANGED <<login, apiKey, timeZone, tools, inv, calls, probe, verdict>>

FetchSettles ==
    /\ pc = "awaiting"
    /\ \E up \in UpstreamOutcomes(inv.tool) : Settle(up)

\* The envelope goes back to the caller; nothing of the invocation is kept.
Deliver ==
    /\ pc = "done"
    /\ pc' = "idle"
    /\ inv' = NoInvocation
    /\ request' = None
    /\ calls' = 0
    /\ apiResult' = None
    /\ upstream' = None
    /\ outcome' = "none"
    /\ envelope' = None
    /\ logs' = 0
    /\ UNCHANGED <<login, apiKey, timeZone, tools, probe, verdict>>

(* isValidISODate on its own: the argument is drawn, the function applied *)

ProbeStrings ==
    {y \o "-" \o m \o "-" \o d :
        y \in {"1900", "2000", "2023", "2024"},
        m \in {"00", "01", "02", "04", "06", "09", "11", "12", "13"},
        d \in {"00", "01", "28", "29", "30", "31", "32"}}
    \cup {"23-1-1", "2023/01/01", "", "2023-1-01", "2023-01-1", "20230101",
          "2023-01-01T", " 2023-01-01", "abcd-ef-gh", "2023-01-01\n", "2023-01-0a"}

InitValidator ==
    /\ login = "coleam00"
    /\ apiKey = None
    /\ timeZone = Zone(0, 0)
    /\ tools = {}
    /\ pc = "start"
    /\ inv = NoInvocation
    /\ request = None
    /\ calls = 0
    /\ apiResult = None
    /\ upstream = None
    /\ outcome = "none"
    /\ envelope = None
    /\ logs = 0
    /\ probe \in ProbeStrings
    /\ verdict = None

Validate ==
    /\ verdict = None
    /\ verdict' = Some(isValidISODate(probe))
    /\ UNCHANGED <<login, apiKey, timeZone, tools, pc, inv, request, calls,
                   apiResult, upstream, outcome, envelope, logs, probe>>

SpecValidator == InitValidator /\ [][Validate]_vars

(* The reporting code of getDailySummary on its own: upstream answers 200 with
   the summary probe, and the handler runs from its await to its return *)

MaxEntries == 3

SummaryEntries ==
    SummaryObjects \cup
        {[activity |-> "Idle", group |-> None, duration |-> 0],
         [activity |-> "Ping", group |-> Some(""), duration |-> 1]}

NoSession ==
    /\ login = "coleam00"
    /\ apiKey = Some("k3y")
    /\ timeZone = Zone(0, 0)
    /\ tools = PublicTools
    /\ pc = "idle"
    /\ inv = NoInvocation
    /\ request = None
    /\ calls = 0
    /\ apiResult = None
    /\ upstream = None
    /\ outcome = "none"
    /\ envelope = None
    /\ logs = 0

InitSummary ==
    /\ NoSession
    /\ probe \in SeqsUpTo(SummaryEntries, MaxEntries)
    /\ verdict = None

Summarise ==
    /\ verdict = None
    /\ verdict' =
            Some(tryCatch(getDailySummaryResume(
                              makeRequest(Response(200, Some(JArray(probe)))),
                              "2024-01-01", "2024-01-07"),
                          CatchPrefix("getDailySummary")))
    /\ UNCHANGED <<login, apiKey, timeZone, tools, pc, inv, request, calls,
                   apiResult, upstream, outcome, envelope, logs, probe>>

\* the same answer given to getDailyQuickSummary, asked for the last 7 days
\* on 2024-01-03T12:00Z
QuickSummarise ==
    /\ envelope = None
    /\ envelope' =
            tryCatch(getDailyQuickSummaryResume(
                         makeRequest(Response(200, Some(JArray(probe)))),
                         DaysFromCivil(2024, 1, 3) * 24 + 12, timeZone, "last_7_days"),
                     CatchPrefix("getDailyQuickSummary")).envelope
    /\ UNCHANGED <<login, apiKey, timeZone, tools, pc, inv, request, calls,
                   apiResult, upstream, outcome, logs, probe, verdict>>

SpecSummary == InitSummary /\ [][Summarise \/ QuickSummarise]_vars

(* formatDuration on its own: the duration is drawn, the function applied *)

MaxDuration == 7300

Durations == 0..MaxDuration \cup {86399, 86400, 90061, 360000}

InitFormatter ==
    /\ NoSession
    /\ probe \in Durations
    /\ verdict = None

Format ==
    /\ verdict = None
    /\ verdict' = Some(formatDuration(probe))
    /\ UNCHANGED <<login, apiKey, timeZone, tools, pc, inv, request, calls,
                   apiResult, upstream, outcome, envelope, logs, probe>>

SpecFormatter == InitFormatter /\ [][Format]_vars

Next ==
    \/ Register
    \/ GetDailyUser
    \/ GetDailyActivities
    \/ GetDailySummary
    \/ GetDailyTimesheet
    \/ CreateDailyActivities
    \/ GetDailyQuickSummary
    \/ CallUnregisteredTool
    \/ FetchSettles
    \/ Deliver

Spec == Init /\ [][Next]_vars

-----------------------------------------------------------------------------
(* Claims *)

Finished == pc = "done" /\ outcome # "not_exposed"
Answered == pc = "done" /\ upstream # None /\ upstream[1].kind = "response"
KeyConfigured == apiKey # None /\ apiKey[1] # ""

\* the invocation's arguments pass the handler's own validation
InputValid(i) ==
    CASE i.tool \in {"getDailySummary", "getDailyTimesheet"} ->
            isValidISODate(i.start) /\ isValidISODate(i.end)
      [] i.tool = "getDailyQuickSummary" -> i.period \in Periods
      [] OTHER -> TRUE

\* C1: for every upstream HTTP status, makeRequest classifies the outcome per
\* the table (200 success with the parsed payload, 204 success without payload,
\* 400/401/500 failure with the fixed message, any other status failure with
\* "Unexpected response status: {code}") and the result's statusCode equals
\* the upstream status.
C1_StatusTable ==
    Answered =>
        LET status == upstream[1].status
            result == apiResult[1]
        IN  /\ result.statusCode = Some(status)
            /\ status = 200 => result.success /\ result.data # None
                                /\ result.data = upstream[1].body
            /\ status = 204 => result.success /\ result.data = None
            /\ status = 400 =>
                    ~result.success /\ result.error =
                        Some("Bad Request: The request was invalid or missing required data")
            /\ status = 401 =>
                    ~result.success /\ result.error =
                        Some("Unauthorized: Invalid or missing API key")
            /\ status = 500 =>
                    ~result.success /\ result.error =
                        Some("Internal Server Error: The server encountered an unexpected error")
            /\ status \notin {200, 204, 400, 401, 500} =>
                    ~result.success /\ result.error =
                        Some("Unexpected response status: " \o ToString(status))

\* C2: a client result carries a statusCode if and only if an HTTP response
\* was received (a 200 response whose body is not JSON included); a result
\* without statusCode is a transport failure with message "Network error: ...".
C2_StatusCodeIffResponse ==
    (pc = "done" /\ upstream # None) =>
        /\ apiResult[1].statusCode # None <=> upstream[1].kind = "response"
        /\ apiResult[1].statusCode = None =>
                /\ ~apiResult[1].success
                /\ StartsWith(apiResult[1].error[1], "Network error: ")

\* C3: a caller whose login is not an exact, case-sensitive member of the
\* allow-list never has createDailyActivities registered and never causes a
\* POST to upstream; a member has the tool registered; the decision is taken
\* once, at registration, and does not change during the session.
C3_AllowListGate ==
    /\ [](/\ pc # "start" =>
                ("createDailyActivities" \in tools <=> login \in ALLOWED_USERNAMES)
          /\ (request # None /\ request[1].method = "POST") =>
                login \in ALLOWED_USERNAMES)
    /\ [][pc # "start" => tools' = tools]_vars

C3_Witness ==
    /\ login = "Coleam00"
    /\ pc = "awaiting"
    /\ "createDailyActivities" \notin tools

\* C4: every tool invocation issues at most one outbound HTTP call, whatever
\* the input and the upstream outcome: exactly one when its input is valid and
\* the API key is configured (for getDailyQuickSummary a GET /summary over the
\* range it computed), none otherwise, and a failed call is not retried.
C4_AtMostOneCall ==
    /\ calls <= 1
    /\ (pc \in {"awaiting", "done"} /\ outcome # "not_exposed") =>
            calls = (IF InputValid(inv) /\ KeyConfigured THEN 1 ELSE 0)
    /\ (pc = "awaiting" /\ inv.tool = "getDailyQuickSummary") =>
            LET range == PeriodRange(inv.period, inv.now[1], timeZone)[1]
            IN  /\ request[1].method = "GET"
                /\ StartsWith(request[1].endpoint,
                        "/summary?start=" \o range.start \o "&end=" \o range.end)

C4_Witness ==
    /\ pc = "done"
    /\ inv.tool = "getDailyQuickSummary"
    /\ upstream = Some(Rejected("fetch failed"))
    /\ calls = 1

\* C5: every tool invocation ends by returning exactly one envelope, success
\* or error, for every input, upstream status, transport failure, malformed or
\* missing payload and missing API key: no exception escapes the handler.
C5_AlwaysAnEnvelope ==
    /\ outcome # "escaped"
    /\ Finished => outcome = "returned" /\ envelope # None
    /\ pc # "done" => envelope = None

C5_Witness ==
    /\ pc = "done"
    /\ upstream # None
    /\ upstream[1] = Response(204, None)
    /\ envelope # None
    /\ envelope[1].isError
    /\ logs = 1


\* C6: in getDailySummary and getDailyTimesheet, if start or end fails
\* isValidISODate, the tool returns an error envelope that names the offending
\* field and gives an example date in the expected format, and no outbound
\* call is issued in that invocation.
C6_InvalidDateRejected ==
    (/\ pc \in {"awaiting", "done"}
     /\ inv.tool \in {"getDailySummary", "getDailyTimesheet"}
     /\ ~isValidISODate(inv.start) \/ ~isValidISODate(inv.end)) =>
        /\ pc = "done"
        /\ calls = 0
        /\ request = None
        /\ upstream = None
        /\ envelope # None
        /\ envelope[1].isError
        /\ LET text == envelope[1].text
               field == IF ~isValidISODate(inv.start) THEN "start" ELSE "end"
               example == SubSeq(text, Len(text) - 9, Len(text))
           IN  /\ Contains(text, "Invalid " \o field \o " date format")
               /\ Contains(text, "YYYY-MM-DD")
               /\ Contains(text, "Example: " \o example)
               /\ isValidISODate(example)

C6_Witness ==
    /\ pc = "done"
    /\ inv.tool = "getDailyTimesheet"
    /\ inv.start = "2024-01-01"
    /\ inv.end = "23-1-1"
    /\ envelope # None

\* the string has the shape YYYY-MM-DD and names a day that exists
DenotesRealDate(str) ==
    /\ Len(str) = 10
    /\ \A i \in 1..10 :
            IF i \in {5, 8} THEN SubSeq(str, i, i) = "-"
            ELSE \E n \in 0..9 : SubSeq(str, i, i) = ToString(n)
    /\ LET year == ParseDigits(str, 1, 4)
           month == ParseDigits(str, 6, 7)
           day == ParseDigits(str, 9, 10)
       IN  /\ month \in 1..12
           /\ day >= 1
           /\ day <= DaysInMonth(year, month)

\* C7: isValidISODate(s) is true exactly when s has the shape YYYY-MM-DD and
\* denotes a real calendar date: false for 2023-02-30, 2024-02-30, a month 13,
\* and for every string not of that shape.
C7_ValidatesRealDates ==
    verdict # None => (verdict[1] <=> DenotesRealDate(probe))

\* C8: when DAILY_API_KEY is not configured, every tool invocation that would
\* contact upstream returns an error envelope citing the missing setting, and
\* no outbound call is issued.
C8_MissingKeyFailsFast ==
    ~KeyConfigured =>
        /\ request = None
        /\ calls = 0
        /\ pc # "awaiting"
        /\ (Finished /\ InputValid(inv)) =>
                /\ envelope # None
                /\ envelope[1].isError
                /\ Contains(envelope[1].text, "DAILY_API_KEY")

C8_Witness ==
    /\ apiKey = Some("")
    /\ Finished
    /\ inv.tool = "getDailyActivities"
    /\ envelope # None
    /\ envelope[1].isError

\* the statusCode property as the envelope's details print it
StatusCodeDetail(status) == "\"statusCode\": " \o ToString(status)

\* the fixed message of an error status, as the client words it
FixedMessage(status) ==
    CASE status = 400 -> "Bad Request: The request was invalid or missing required data"
      [] status = 401 -> "Unauthorized: Invalid or missing API key"
      [] status = 500 ->
            "Internal Server Error: The server encountered an unexpected error"
      [] OTHER -> "Unexpected response status: " \o ToString(status)

C10_AsStated ==
    (pc = "done" /\ inv.tool = "createDailyActivities"
        /\ login \notin ALLOWED_USERNAMES) =>
            /\ envelope # None
            /\ envelope[1].isError
            /\ \/ Contains(envelope[1].text, "ermission")
               \/ Contains(envelope[1].text, "not allowed")
               \/ Contains(envelope[1].text, "nauthorized")
               \/ Contains(envelope[1].text, "orbidden")

\* C10, amended: for a caller not on the allow-list the create-activities
\* operation is not exposed at all: an attempt reaches no handler of this
\* server, which builds no envelope for it (neither a success nor a permission
\* error) and issues no outbound call.
C10_NotExposed ==
    (pc = "done" /\ inv.tool = "createDailyActivities"
        /\ login \notin ALLOWED_USERNAMES) =>
            /\ outcome = "not_exposed"
            /\ envelope = None
            /\ calls = 0
            /\ upstream = None

C10_Witness ==
    /\ login = "jplattus"
    /\ pc = "done"
    /\ inv.tool = "createDailyActivities"
    /\ outcome = "not_exposed"

-----------------------------------------------------------------------------
(* Claims about the reports *)

\* f[1] + ... + f[n]
RECURSIVE SumTo(_, _)
SumTo(f, n) == IF n = 0 THEN 0 ELSE f[n] + SumTo(f, n - 1)

\* the report getDailySummary returned for the probe
SummaryReport == verdict[1].envelope[1].data[1]

\* C11: for every summary returned by upstream, getDailySummary reports
\* totalSeconds equal to the sum of the entries' durations and emits the
\* entries in non-increasing order of durationSeconds, entries of equal
\* duration in their upstream order; the output is a permutation of the input.
C11_SortedStablePermutation ==
    verdict # None =>
        /\ ~verdict[1].envelope[1].isError
        /\ LET out == SummaryReport.activities
               n == Len(probe)
           IN  /\ SummaryReport.totalSeconds = SumTo([i \in 1..n |-> probe[i].duration], n)
               /\ Len(out) = n
               /\ \A i, j \in 1..n :
                      i < j => out[i].durationSeconds >= out[j].durationSeconds
               /\ \E p \in Permutations(1..n) :
                      /\ \A i \in 1..n :
                            /\ out[i].activity = probe[p[i]].activity
                            /\ out[i].durationSeconds = probe[p[i]].duration
                      /\ \A i, j \in 1..n :
                            (i < j /\ out[i].durationSeconds = out[j].durationSeconds)
                                => p[i] < p[j]

\* a summary of three entries that the sort reorders and that has two
\* different entries of equal duration
C11_Witness ==
    /\ verdict # None
    /\ Len(probe) = 3
    /\ \E i, j \in 1..3 : i < j /\ probe[i].duration < probe[j].duration
    /\ \E i, j \in 1..3 :
          /\ i < j
          /\ probe[i].duration = probe[j].duration
          /\ probe[i].activity # probe[j].activity
    /\ SummaryReport.activities[1].activity # probe[1].activity

\* the number of tenths of a percent a percentage string denotes:
\* "66.7%" is 667, "0%" is 0
TenthsOf(str) ==
    LET body == SubSeq(str, 1, Len(str) - 1)
    IN  IF Contains(body, ".")
        THEN 10 * ParseDigits(body, 1, Len(body) - 2) + ParseDigits(body, Len(body), Len(body))
        ELSE 10 * ParseDigits(body, 1, Len(body))

\* the sum of the reported percentages, in tenths of a percent
PercentageSum ==
    LET out == SummaryReport.activities
    IN  SumTo([i \in 1..Len(out) |-> TenthsOf(out[i].percentage)], Len(out))

\* C12 as stated: for every non-empty summary the percentages (each rounded
\* to one decimal) sum to 100%.
C12_AsStated ==
    (verdict # None /\ Len(probe) > 0) => PercentageSum = 1000

\* C12 as amended: for a non-empty summary of n entries whose total duration
\* is positive the percentages sum to 100% to within 0.05 percentage points
\* per entry; when the total duration is 0 every percentage is "0%".
C12_SumWithinRounding ==
    (verdict # None /\ Len(probe) > 0) =>
        LET out == SummaryReport.activities
            n == Len(probe)
        IN  IF SummaryReport.totalSeconds > 0
            THEN /\ 2 * (PercentageSum - 1000) <= n
                 /\ 2 * (1000 - PercentageSum) <= n
            ELSE \A i \in 1..n : out[i].percentage = "0%"

\* three entries of 33.3% each
C12_Witness ==
    /\ verdict # None
    /\ Len(probe) = 3
    /\ SummaryReport.totalSeconds > 0
    /\ PercentageSum = 999

\* an invocation of the tool ended after upstream answered 200 with an array
Reported(tool) ==
    /\ Finished
    /\ inv.tool = tool
    /\ upstream # None
    /\ upstream[1].kind = "response"
    /\ upstream[1].status = 200
    /\ upstream[1].body # None
    /\ upstream[1].body[1].t = "array"

\* the group an activity is filed under: its group, "Ungrouped" when absent
LabelOf(activity) == IF activity.group = None THEN "Ungrouped" ELSE activity.group[1]

\* the items of seq filed under the label g, in their order
FiledUnder(seq, g) == SelectSeq(seq, LAMBDA a : LabelOf(a) = g)

\* C13: in getDailyActivities grouping is a partition of the input: every
\* activity upstream returned is in exactly one bucket of activitiesByGroup, in
\* its original relative order within the bucket, an activity without group
\* is under "Ungrouped", and the reported groups count is the number of
\* buckets; for every group name upstream can return.
C13_GroupingPartition ==
    Reported("getDailyActivities") =>
        /\ ~envelope[1].isError
        /\ LET activities == upstream[1].body[1].items
               buckets == envelope[1].data[1].activitiesByGroup
           IN  /\ DOMAIN buckets = {LabelOf(activities[i]) : i \in 1..Len(activities)}
               /\ \A g \in DOMAIN buckets : buckets[g] = FiledUnder(activities, g)
               /\ envelope[1].data[1].summary.groups = Cardinality(DOMAIN buckets)

\* C14: getDailyTimesheet reports totalDays = number of days, daysWithActivity
\* = number of days with at least one activity, daysWithoutActivity =
\* totalDays - daysWithActivity, each dayTotalSeconds = the sum of the day's
\* durations, totalSeconds = the sum of the dayTotalSeconds, and averagePerDay
\* = the formatted round(totalSeconds / totalDays), zero when totalDays is 0.
C14_TimesheetTotals ==
    Reported("getDailyTimesheet") =>
        /\ ~envelope[1].isError
        /\ LET days == upstream[1].body[1].items
               n == Len(days)
               report == envelope[1].data[1]
               total == report.summary.totalSeconds
           IN  /\ report.summary.totalDays = n
               /\ report.summary.daysWithActivity =
                      Cardinality({i \in 1..n : days[i].activities # <<>>})
               /\ report.summary.daysWithoutActivity =
                      n - report.summary.daysWithActivity
               /\ Len(report.timesheet) = n
               /\ \A i \in 1..n :
                      report.timesheet[i].dayTotalSeconds =
                          SumTo([k \in 1..Len(days[i].activities) |->
                                    days[i].activities[k].duration],
                                Len(days[i].activities))
               /\ total = SumTo([i \in 1..n |-> report.timesheet[i].dayTotalSeconds], n)
               /\ IF n = 0
                  THEN report.summary.averagePerDay = "0s"
                  ELSE \E r \in 0..total :
                          /\ 2 * n * r <= 2 * total + n
                          /\ 2 * total + n < 2 * n * r + 2 * n
                          /\ report.summary.averagePerDay = formatDuration(r)

\* two days, one of them without activity, and an average that is rounded up
C14_Witness ==
    /\ Reported("getDailyTimesheet")
    /\ envelope[1].data[1].summary.totalDays = 2
    /\ envelope[1].data[1].summary.daysWithoutActivity = 1
    /\ envelope[1].data[1].summary.totalSeconds = 1845
    /\ envelope[1].data[1].summary.averagePerDay = "15m 23s"

\* the words of a string, separated by single spaces
RECURSIVE Words(_)
Words(str) ==
    IF str = "" THEN <<>>
    ELSE LET spaces == {i \in 1..Len(str) : CharAt(str, i) = " "}
         IN  IF spaces = {} THEN <<str>>
             ELSE LET at == CHOOSE i \in spaces : \A j \in spaces : i <= j
                  IN  <<SubSeq(str, 1, at - 1)>> \o Words(SubSeq(str, at + 1, Len(str)))

\* a component is a decimal number followed by its unit letter
IsComponent(word) ==
    /\ Len(word) >= 2
    /\ \A i \in 1..(Len(word) - 1) : IsDigit(CharAt(word, i))

UnitOf(word) == CharAt(word, Len(word))
AmountOf(word) == ParseDigits(word, 1, Len(word) - 1)

\* the amount of the component of the given unit, 0 when there is none
AmountIn(words, unit) ==
    LET at == {i \in 1..Len(words) : UnitOf(words[i]) = unit}
    IN  IF at = {} THEN 0 ELSE AmountOf(words[CHOOSE i \in at : TRUE])

\* C15: for every integer duration d >= 0, formatDuration(d) yields components
\* h, m, s with h*3600 + m*60 + s = d, 0 <= m < 60 and 0 <= s < 60; the hour
\* component is present exactly when d >= 3600, and both the hour and the
\* minute component are omitted exactly when d < 60.
C15_FormatDurationRoundTrip ==
    verdict # None =>
        LET words == Words(verdict[1])
            units == [i \in 1..Len(words) |-> UnitOf(words[i])]
            h == AmountIn(words, "h")
            m == AmountIn(words, "m")
            sec == AmountIn(words, "s")
        IN  /\ \A i \in 1..Len(words) : IsComponent(words[i])
            /\ units \in {<<"h", "m", "s">>, <<"m", "s">>, <<"s">>}
            /\ h * 3600 + m * 60 + sec = probe
            /\ m \in 0..59
            /\ sec \in 0..59
            /\ (units = <<"h", "m", "s">>) <=> (probe >= 3600)
            /\ (units = <<"s">>) <=> (probe < 60)

\* one hour and one second, formatted with its zero minutes
C15_Witness == verdict = Some("1h 0m 1s") /\ probe = 3601

-----------------------------------------------------------------------------
(* Claims about the quick summary's date ranges *)

\* getDailyQuickSummary is suspended in its call to upstream
Querying(periods) ==
    /\ pc = "awaiting"
    /\ inv.tool = "getDailyQuickSummary"
    /\ inv.period \in periods

\* YYYY-MM-DD of a day number of the UTC calendar
DayISO(day) == ISODate(CivilFromDays(day))

\* the request in flight asks for the summary of the days from..to
QueriesDays(from, to) ==
    StartsWith(request[1].endpoint,
               "/summary?start=" \o DayISO(from) \o "&end=" \o DayISO(to))

\* C16: for every current instant, getDailyQuickSummary queries start = end =
\* the current UTC date for today, start = end = that date minus 1 day for
\* yesterday, and end = the current UTC date, start = that date minus 7 / 30
\* days for last_7_days / last_30_days.
C16_UtcDayRanges ==
    Querying({"today", "yesterday", "last_7_days", "last_30_days"}) =>
        LET today == UtcDay(inv.now[1])
        IN  CASE inv.period = "today" -> QueriesDays(today, today)
              [] inv.period = "yesterday" -> QueriesDays(today - 1, today - 1)
              [] inv.period = "last_7_days" -> QueriesDays(today - 7, today)
              [] inv.period = "last_30_days" -> QueriesDays(today - 30, today)

\* C17: for every current date, getDailyQuickSummary queries, for this_week,
\* start = the most recent Sunday on or before today and end = today; for
\* last_week, end = the Saturday before this week's Sunday and start = end
\* minus 6 days.
C17_WeekRanges ==
    Querying({"this_week", "last_week"}) =>
        LET today == UtcDay(inv.now[1])
            sunday == today - Weekday(today)
        IN  IF inv.period = "this_week"
            THEN QueriesDays(sunday, today)
            ELSE QueriesDays(sunday - 7, sunday - 1)

\* C18: getDailyQuickSummary called with a period outside the seven tags
\* returns an error envelope whose message names the offending value, and
\* issues no outbound call.
C18_InvalidPeriodRejected ==
    [](/\ (Finished /\ inv.tool = "getDailyQuickSummary" /\ inv.period \notin Periods) =>
            /\ envelope # None
            /\ envelope[1].isError
            /\ envelope[1].text = "**Error**\n\nInvalid period: " \o inv.period
            /\ calls = 0
            /\ upstream = None
        /\ (Querying(PeriodArgs) => inv.period \in Periods))

\* an unknown period was refused although the API key is configured
C18_Witness ==
    /\ Finished
    /\ inv.tool = "getDailyQuickSummary"
    /\ inv.period = "last_month"
    /\ KeyConfigured
    /\ envelope[1].isError

-----------------------------------------------------------------------------
(* Claims about the client's results *)

\* C20 as stated: every result of a client operation has exactly one variant
\* populated: success with data present and no error, or failure with an
\* error message present and no data; for every upstream status, 204 included.
C20_AsStated ==
    apiResult # None =>
        LET result == apiResult[1]
        IN  \/ result.success /\ result.data # None /\ result.error = None
            \/ ~result.success /\ result.error # None /\ result.data = None

\* C20 as amended: a result is either a success without error, which carries
\* the parsed payload when upstream answered 200 and no data when it answered
\* 204, or a failure with an error message and no data.
C20_OneVariant ==
    apiResult # None =>
        LET result == apiResult[1]
        IN  \/ /\ result.success
               /\ result.error = None
               /\ upstream[1].kind = "response"
               /\ upstream[1].status \in {200, 204}
               /\ IF upstream[1].status = 200
                  THEN result.data = upstream[1].body /\ result.data # None
                  ELSE result.data = None
            \/ /\ ~result.success
               /\ result.error # None
               /\ result.error[1] # ""
               /\ result.data = None

\* upstream answered 204: a success that carries no data
C20_Witness ==
    /\ apiResult # None
    /\ upstream[1].kind = "response"
    /\ upstream[1].status = 204
    /\ apiResult[1].success
    /\ apiResult[1].data = None

-----------------------------------------------------------------------------
(* Claims about logging, requests and registration *)

\* C21: on every path on which a tool returns an error envelope, a local log
\* entry is written before the envelope is returned.
C21_ErrorPathsLogged ==
    (Finished /\ envelope # None /\ envelope[1].isError) => logs >= 1

\* a tool that takes includeArchivedActivities is suspended in its call
Reading ==
    /\ pc = "awaiting"
    /\ inv.tool \in {"getDailyActivities", "getDailySummary", "getDailyTimesheet",
                      "getDailyQuickSummary"}

C23_ThisMonthRange ==
    Querying({"this_month"}) =>
        LET today == UtcDay(inv.now[1])
            date == CivilFromDays(today)
        IN  QueriesDays(DaysFromCivil(date.y, date.m, 1), today)

\* the string of a number of tenths of a percent: 667 is "66.7%"
PercentText(tenths) ==
    ToString(tenths \div 10) \o "." \o ToString(tenths % 10) \o "%"

\* tenths is a nearest whole number of tenths of a percent to duration / total
NearestTenths(tenths, duration, total) ==
    /\ 2 * (tenths * total - 1000 * duration) <= total
    /\ 2 * (1000 * duration - tenths * total) <= total

\* the output entry renders the upstream entry of a summary of this total
RendersEntry(out, entry, total) ==
    /\ out.activity = entry.activity
    /\ entry.group = None => out.group = "Ungrouped"
    /\ IF total = 0
       THEN out.percentage = "0%"
       ELSE \E tenths \in 0..1000 :
               /\ NearestTenths(tenths, entry.duration, total)
               /\ out.percentage = PercentText(tenths)

\* the output entries render the probe's entries, one each
RendersProbe(outs) ==
    LET n == Len(probe)
        total == SumTo([i \in 1..n |-> probe[i].duration], n)
    IN  /\ Len(outs) = n
        /\ \E p \in Permutations(1..n) :
               \A i \in 1..n : RendersEntry(outs[i], probe[p[i]], total)

\* C24: in getDailySummary and getDailyQuickSummary each entry's percentage
\* is its duration divided by the total duration times 100, rounded to one
\* decimal and suffixed with '%', and is "0%" for every entry when the total
\* is 0; an entry with an absent group is rendered with group "Ungrouped".
C24_PercentagesAndGroups ==
    /\ verdict # None => RendersProbe(SummaryReport.activities)
    /\ envelope # None => RendersProbe(envelope[1].data[1].allActivities)

\* 3600 of 5400 is 66.7%, 1800 of 5400 is 33.3%, in both reports
C24_Witness ==
    /\ verdict # None
    /\ envelope # None
    /\ Len(probe) = 2
    /\ probe[1].duration = 1800
    /\ probe[2].duration = 3600
    /\ probe[2].group = None
    /\ SummaryReport.activities[1].percentage = "66.7%"
    /\ SummaryReport.activities[1].group = "Ungrouped"
    /\ envelope[1].data[1].allActivities[2].percentage = "33.3%"

\* C25: a tool returns a success envelope only when upstream answered its
\* call with status 200 and a payload; when upstream answers 204 every tool,
\* createDailyActivities included, returns an error envelope.
C25_SuccessNeedsPayload ==
    /\ (Finished /\ envelope # None /\ ~envelope[1].isError) =>
            /\ upstream # None
            /\ upstream[1].kind = "response"
            /\ upstream[1].status = 200
            /\ upstream[1].body # None
            /\ upstream[1].body[1] # JNull
    /\ (Answered /\ upstream[1].status = 204) =>
            /\ envelope # None
            /\ envelope[1].isError

\* createDailyActivities was answered 204 and returned an error envelope
C25_Witness ==
    /\ Answered
    /\ inv.tool = "createDailyActivities"
    /\ upstream[1].status = 204
    /\ envelope # None
    /\ envelope[1].isError

\* the day number of a YYYY-MM-DD string
DayOf(str) ==
    DaysFromCivil(ParseDigits(str, 1, 4), ParseDigits(str, 6, 7), ParseDigits(str, 9, 10))

\* the two dates of "/summary?start=YYYY-MM-DD&end=YYYY-MM-DD..."
QueriedStart == DayOf(SubSeq(request[1].endpoint, 16, 25))
QueriedEnd == DayOf(SubSeq(request[1].endpoint, 31, 40))

\* C26: for every accepted period tag, every current instant and every host
\* time-zone offset, the date range getDailyQuickSummary sends to upstream
\* satisfies start <= end.
C26_StartNotAfterEnd ==
    Querying(Periods) =>
        /\ StartsWith(request[1].endpoint, "/summary?start=")
        /\ SubSeq(request[1].endpoint, 26, 30) = "&end="
        /\ QueriedStart <= QueriedEnd

\* last week is asked for on a host that is not on UTC: seven days
C26_Witness ==
    /\ Querying({"last_week"})
    /\ timeZone # Zone(0, 0)
    /\ QueriedStart + 6 = QueriedEnd

\* the path of an endpoint: what precedes its query string
PathOf(endpoint) ==
    LET marks == {i \in 1..Len(endpoint) : CharAt(endpoint, i) = "?"}
    IN  IF marks = {} THEN endpoint
        ELSE SubSeq(endpoint, 1, (CHOOSE i \in marks : \A j \in marks : i <= j) - 1)

\* C27: only createDailyActivities issues a mutating request: the five other
\* tools issue only GET requests, to /user, /activities, /summary, /timesheet
\* and /summary, and the only POST ever issued is POST /activities from
\* createDailyActivities.
C27_OnlyCreatePosts ==
    request # None =>
        LET sent == <<request[1].method, PathOf(request[1].endpoint)>>
        IN  CASE inv.tool = "getDailyUser" -> sent = <<"GET", "/user">>
              [] inv.tool = "getDailyActivities" -> sent = <<"GET", "/activities">>
              [] inv.tool = "getDailySummary" -> sent = <<"GET", "/summary">>
              [] inv.tool = "getDailyTimesheet" -> sent = <<"GET", "/timesheet">>
              [] inv.tool = "getDailyQuickSummary" -> sent = <<"GET", "/summary">>
              [] inv.tool = "createDailyActivities" -> sent = <<"POST", "/activities">>
              [] OTHER -> FALSE

\* createDailyActivities has its POST in flight
C27_Witness ==
    /\ pc = "awaiting"
    /\ inv.tool = "createDailyActivities"
    /\ request[1].method = "POST"
    /\ request[1].endpoint = "/activities?archiveExistingActivities=true"

\* C28: the standard registration and the Sentry-instrumented registration
\* register the same set of tool names for every caller identity; in
\* particular createDailyActivities is registered by both or by neither.
C28_RegistrationsAgree ==
    pc # "start" => tools = registerDailyToolsWithSentry(login)

====
